---- MODULE Spec2Model ----
(***************************************************************************)
(* BirdOfTheDay: the retry driver of src/main.rs and the pipeline of       *)
(* src/lib.rs (get_bird -> get_bird_photo -> authenticate -> post).        *)
(*                                                                         *)
(* A Rust String is modelled as its sequence of Unicode code points; its   *)
(* len() is the length of its UTF-8 encoding, computed by Encode.  URLs,   *)
(* tokens and other values the code only forwards are TLA+ strings.        *)
(* Option<T> is a sequence of length 0 (None) or 1 (Some).  A panic ends   *)
(* the process: pc = "crashed".                                            *)
(***************************************************************************)
EXTENDS Integers, Sequences, FiniteSets, TLC

\* Longest birds.json modelled (number of records).
MaxBirds == 2

None == <<>>
Some(x) == <<x>>
is_none(o) == o = None
unwrap(o) == o[1]

(***************************************************************************)
(* Strings                                                                 *)
(***************************************************************************)
\* UTF-8 encoding of one code point
Utf8(cp) ==
    IF cp < 128 THEN <<cp>>
    ELSE IF cp < 2048 THEN <<192 + (cp \div 64), 128 + (cp % 64)>>
    ELSE IF cp < 65536 THEN
        <<224 + (cp \div 4096), 128 + ((cp \div 64) % 64), 128 + (cp % 64)>>
    ELSE <<240 + (cp \div 262144), 128 + ((cp \div 4096) % 64),
           128 + ((cp \div 64) % 64), 128 + (cp % 64)>>

RECURSIVE Encode(_)
Encode(s) == IF s = <<>> THEN <<>> ELSE Utf8(Head(s)) \o Encode(Tail(s))

\* str::len(): the number of bytes of the UTF-8 encoding
\* (mutation of str_len: the number of characters, as chars().count())
chars_count(s) == Len(s)
str_len(s) == Len(Encode(s))

\* str::contains(pat)
contains(s, pat) ==
    \E i \in 1..(Len(s) - Len(pat) + 1) : SubSeq(s, i, i + Len(pat) - 1) = pat

\* usize subtraction: below zero it panics (debug) or wraps (release); both
\* outcomes are represented by the marker -1.
usize_sub(a, b) == IF a >= b THEN a - b ELSE -1

SpDot == <<115, 112, 46>>                                  \* "sp."
ImageCredit == <<73, 109, 97, 103, 101, 32, 67, 114, 101, 100, 105, 116>>

\* format!("{} ({})\n\nImage Credit", common_name, scientific_name)
format_text(common_name, scientific_name) ==
    common_name \o <<32, 40>> \o scientific_name \o <<41, 10, 10>> \o ImageCredit

(***************************************************************************)
(* birds.json                                                              *)
(***************************************************************************)
Bird(c, s, e) == [common_name |-> c, scientific_name |-> s, extinct |-> e]

Birds ==
    { Bird(<<74, 97, 121>>, <<67, 121>>, None),                  \* "Jay" (Cy)
      Bird(<<103, 117, 108, 108, 32, 115, 112, 46>>, <<76>>, None), \* "gull sp."
      Bird(<<68, 111, 100, 111>>, <<82>>, Some(TRUE)),           \* "Dodo", extinct
      Bird(<<>>, <<>>, None),                                     \* empty names
      Bird(<<209, 8364, 128038>>, <<233>>, None),                 \* multi-byte
      Bird(<<75, 101, 97>>, <<78>>, Some(FALSE)) }               \* "extinct": false

Datasets == UNION { [1..n -> Birds] : n \in 0..MaxBirds }

FileStates == {"ok", "open_error", "read_error", "parse_error"}

EnvVars == {"BOTD_EMAIL", "BOTD_HANDLE", "BOTD_PASS"}
Envs == {EnvVars} \cup { EnvVars \ {v} : v \in EnvVars }

\* birds.retain(|b| !b.common_name.contains("sp.") && b.extinct.is_none())
Keep(bird) == ~contains(bird.common_name, SpDot) /\ is_none(bird.extinct)
retain(bs) == SelectSeq(bs, Keep)

(***************************************************************************)
(* HTTP responses.  send() yields Err (ok = FALSE: transport error or the  *)
(* 30 second timeout) or a response with a status code and a body.         *)
(***************************************************************************)
\* a meta/link element: None when no element matches the selector,
\* Some(None) when the first match lacks the attribute, Some(Some(v)) else
Tag(v) == {None, Some(None), Some(Some(v))}

Pages == [og_image : Tag("https://cdn.example/img"),
          og_image_alt : Tag("a bird"),
          og_url : Tag("https://ebird.org/species/x"),
          image_src : Tag("image/jpeg")]

\* body: None when the bytes are not UTF-8, else Some(page)
PageResponses ==
    {[ok |-> FALSE, status |-> 0, body |-> None]}
    \cup {[ok |-> TRUE, status |-> 500, body |-> None]}
    \cup [ok : {TRUE}, status : {200}, body : {None} \cup {Some(p) : p \in Pages}]

BirdImage(pt, dl, src, alt) ==
    [photo_type |-> pt, url_download |-> dl, url_source |-> src, alt_text |-> alt]

Returned(v) == [panicked |-> FALSE, value |-> v]
Panicked == [panicked |-> TRUE, value |-> None]

\* Option<&str>::unwrap() of an element's attribute, then the next tag
attr(tag) == unwrap(tag)

\* lines 169-208: the four selectors in the order the code queries them
scrape(page) ==
    IF is_none(page.og_image) THEN Returned(None)
    ELSE IF is_none(attr(page.og_image)) THEN Panicked
    ELSE IF is_none(page.og_image_alt) THEN Returned(None)
    ELSE IF is_none(attr(page.og_image_alt)) THEN Panicked
    ELSE IF is_none(page.og_url) THEN Returned(None)
    ELSE IF is_none(attr(page.og_url)) THEN Panicked
    ELSE IF is_none(page.image_src) THEN Returned(None)
    ELSE IF is_none(attr(page.image_src)) THEN Panicked
    ELSE Returned(Some(BirdImage(unwrap(attr(page.image_src)),
                                 unwrap(attr(page.og_image)),
                                 unwrap(attr(page.og_url)),
                                 unwrap(attr(page.og_image_alt)))))

\* JSON values: a string, or something that is not a string
JString(s) == [type |-> "string", str |-> s]
JNumber == [type |-> "number", str |-> ""]
as_str(v) == IF v.type = "string" THEN Some(v.str) ELSE None

\* Value::get(key): None when the key is absent
JField(strs) == {None} \cup {Some(JNumber)} \cup {Some(JString(s)) : s \in strs}

JwtValues == {"tok", "tok2"}
DidValues == {"did:abc", "did:xyz"}

SessionBodies == [accessJwt : JField(JwtValues), did : JField(DidValues)]

\* utf8: the body is valid UTF-8; json: None when the body is not JSON
AuthResponses ==
    {[ok |-> FALSE, status |-> 0, utf8 |-> TRUE, json |-> None]}
    \cup [ok : {TRUE}, status : {500}, utf8 : BOOLEAN, json : {None}]
    \cup [ok : {TRUE}, status : {200}, utf8 : {TRUE},
          json : {None} \cup {Some(j) : j \in SessionBodies}]

Token(t, d) == [token |-> t, did |-> d]

\* lines 234-258
parse_session(r) ==
    IF is_none(r.json) THEN Returned(None)
    ELSE LET json == unwrap(r.json) IN
         IF is_none(json.accessJwt) THEN Returned(None)
         ELSE IF is_none(as_str(unwrap(json.accessJwt))) THEN Panicked
         ELSE IF is_none(json.did) THEN Returned(None)
         ELSE IF is_none(as_str(unwrap(json.did))) THEN Panicked
         ELSE Returned(Some(Token(unwrap(as_str(unwrap(json.accessJwt))),
                                  unwrap(as_str(unwrap(json.did))))))

PhotoResponses ==
    {[ok |-> FALSE, status |-> 0, utf8 |-> TRUE]}
    \cup [ok : {TRUE}, status : {500}, utf8 : BOOLEAN]
    \cup {[ok |-> TRUE, status |-> 200, utf8 |-> FALSE]}

BlobBodies == [blob : {None, Some("blobref")}]

BlobResponses ==
    {[ok |-> FALSE, status |-> 0, json |-> None]}
    \cup {[ok |-> TRUE, status |-> 500, json |-> None]}
    \cup [ok : {TRUE}, status : {200},
          json : {None} \cup {Some(j) : j \in BlobBodies}]

\* accepted: the remote service stored the record.  A request can be stored
\* and its response lost or late (ok = FALSE, accepted = TRUE).
RecordResponses ==
    [ok : {FALSE}, status : {0}, utf8 : {TRUE}, accepted : BOOLEAN]
    \cup [ok : {TRUE}, status : {500}, utf8 : BOOLEAN, accepted : {FALSE}]
    \cup {[ok |-> TRUE, status |-> 200, utf8 |-> TRUE, accepted |-> TRUE]}

VARIABLES
    env,            \* environment variables that are set
    file,           \* state of birds.json on disk
    birds,          \* the records of birds.json when it parses
    pc,             \* position of the process
    num_attempts,   \* main's counter
    results,        \* the values run() has returned, in order
    steps,          \* this attempt's steps and how each ended
    b,              \* run(): Option<Bird>
    image,          \* run(): Option<BirdImage>
    token,          \* run(): Option<Token>
    post_json,      \* post(): Option of the createRecord body
    resp,           \* Option of the response the attempt's last request got
    remote_posts,   \* posts the remote service has created
    error_reported, \* "After 3 attempts, unable to create post" printed
    success_printed,\* number of "Success!!!!" lines printed
    panic           \* what the process panicked on, "" if it did not

vars == <<env, file, birds, pc, num_attempts, results, steps, b, image, token,
          post_json, resp, remote_posts, error_reported, success_printed, panic>>

Init ==
    /\ env \in Envs
    /\ file \in FileStates
    /\ birds \in (IF file = "ok" THEN Datasets ELSE {<<>>})
    /\ pc = "main_loop"
    /\ num_attempts = 0
    /\ results = <<>>
    /\ steps = <<>>
    /\ b = None
    /\ image = None
    /\ token = None
    /\ post_json = None
    /\ resp = None
    /\ remote_posts = 0
    /\ error_reported = FALSE
    /\ success_printed = 0
    /\ panic = ""

(***************************************************************************)
(* How a step of run() ends                                                *)
(***************************************************************************)
Entry(name, outcome) == [step |-> name, outcome |-> outcome]

\* the step produced its value; run() goes on with the next step
StepOk(name, next) ==
    /\ steps' = Append(steps, Entry(name, "ok"))
    /\ pc' = next
    /\ UNCHANGED <<results, panic>>

\* main: `if run() { break; }`
AfterRun(r) == IF r THEN "main_report" ELSE "main_loop"

\* run() returns r to main
RunReturns(name, r) ==
    /\ steps' = Append(steps, Entry(name, IF r THEN "ok" ELSE "fail"))
    /\ results' = Append(results, r)
    /\ pc' = AfterRun(r)
    /\ UNCHANGED panic

\* the step panics: the process ends
StepPanics(name, cause) ==
    /\ steps' = Append(steps, Entry(name, "panic"))
    /\ pc' = "crashed"
    /\ panic' = cause
    /\ UNCHANGED results

(***************************************************************************)
(* main                                                                    *)
(***************************************************************************)
\* (mutation of LoopCond: an off-by-one loop bound)
LoopCondInclusive(n) == n <= 3
\* while num_attempts < 3
LoopCond(n) == n < 3
\* if num_attempts == 3
ReportCond(n) == n = 3

MainLoop ==
    /\ pc = "main_loop"
    /\ IF LoopCond(num_attempts)
       THEN /\ num_attempts' = num_attempts + 1
            /\ pc' = "get_bird"
            /\ steps' = <<>>
            /\ b' = None
            /\ image' = None
            /\ token' = None
            /\ post_json' = None
            /\ resp' = None
       ELSE /\ pc' = "main_report"
            /\ UNCHANGED <<num_attempts, steps, b, image, token, post_json,
                           resp>>
    /\ UNCHANGED <<env, file, birds, results, remote_posts, error_reported,
                   success_printed, panic>>

MainReport ==
    /\ pc = "main_report"
    /\ error_reported' = ReportCond(num_attempts)
    /\ pc' = "done"
    /\ UNCHANGED <<env, file, birds, num_attempts, results, steps, b, image,
                   token, post_json, resp, remote_posts, success_printed, panic>>

(***************************************************************************)
(* get_bird                                                                *)
(***************************************************************************)
GetBird ==
    /\ pc = "get_bird"
    /\ IF file # "ok"
       THEN /\ b' = None
            /\ RunReturns("get_bird", FALSE)
       ELSE LET kept == retain(birds) IN
            IF Len(kept) = 0
            THEN \* rng.gen_range(0..0) panics on the empty range
                 /\ b' = None
                 /\ StepPanics("get_bird", "gen_range: empty range")
            ELSE \E i \in 1..Len(kept) :
                 /\ b' = Some(kept[i])
                 /\ StepOk("get_bird", "get_bird_photo")
    /\ UNCHANGED <<env, file, birds, num_attempts, image, token, post_json,
                   resp, remote_posts, error_reported, success_printed>>

(***************************************************************************)
(* get_bird_photo                                                          *)
(***************************************************************************)
GetBirdPhoto ==
    /\ pc = "get_bird_photo"
    /\ IF "BOTD_EMAIL" \notin env
       THEN /\ image' = None
            /\ resp' = None
            /\ StepPanics("get_bird_photo", "env BOTD_EMAIL")
       ELSE \E r \in PageResponses :
            /\ resp' = Some(r)
            /\ IF ~r.ok \/ r.status # 200 \/ is_none(r.body)
               THEN /\ image' = None
                    /\ RunReturns("get_bird_photo", FALSE)
               ELSE LET got == scrape(unwrap(r.body)) IN
                    /\ image' = got.value
                    /\ IF got.panicked
                       THEN StepPanics("get_bird_photo", "attr: unwrap on None")
                       ELSE IF is_none(got.value)
                       THEN RunReturns("get_bird_photo", FALSE)
                       ELSE StepOk("get_bird_photo", "authenticate")
    /\ UNCHANGED <<env, file, birds, num_attempts, b, token, post_json,
                   remote_posts, error_reported, success_printed>>

(***************************************************************************)
(* authenticate                                                            *)
(***************************************************************************)
Authenticate ==
    /\ pc = "authenticate"
    /\ IF ~({"BOTD_HANDLE", "BOTD_PASS"} \subseteq env)
       THEN /\ token' = None
            /\ resp' = None
            /\ StepPanics("authenticate", "env BOTD_HANDLE or BOTD_PASS")
       ELSE \E r \in AuthResponses :
            /\ resp' = Some(r)
            /\ IF ~r.ok
               THEN /\ token' = None
                    /\ RunReturns("authenticate", FALSE)
               ELSE IF r.status # 200
               THEN \* eprintln!(.., r.as_str().unwrap())
                    /\ token' = None
                    /\ IF r.utf8
                       THEN RunReturns("authenticate", FALSE)
                       ELSE StepPanics("authenticate", "as_str: unwrap on Err")
               ELSE LET got == parse_session(r) IN
                    /\ token' = got.value
                    /\ IF got.panicked
                       THEN StepPanics("authenticate", "as_str: unwrap on None")
                       ELSE IF is_none(got.value)
                       THEN RunReturns("authenticate", FALSE)
                       ELSE StepOk("authenticate", "download")
    /\ UNCHANGED <<env, file, birds, num_attempts, b, image, post_json,
                   remote_posts, error_reported, success_printed>>

(***************************************************************************)
(* post                                                                    *)
(***************************************************************************)
\* "byteStart": text.len() - "Image Credit".len(), "byteEnd": text.len()
byteStart(text) == usize_sub(str_len(text), str_len(ImageCredit))
byteEnd(text) == str_len(text)

\* lines 307-335, the blob taken out of the upload's JSON
build_post(bird, photo, tok, blob) ==
    LET text == format_text(bird.common_name, bird.scientific_name) IN
    [repo |-> tok.did,
     text |-> text,
     byteStart |-> byteStart(text),
     byteEnd |-> byteEnd(text),
     uri |-> photo.url_source,
     alt |-> photo.alt_text,
     image |-> blob]

\* lines 264-278: the photo download
PostDownload ==
    /\ pc = "download"
    /\ IF "BOTD_EMAIL" \notin env
       THEN /\ resp' = None
            /\ StepPanics("download", "env BOTD_EMAIL")
       ELSE \E r \in PhotoResponses :
            /\ resp' = Some(r)
            /\ IF ~r.ok
               THEN RunReturns("download", FALSE)
               ELSE IF r.status # 200
               THEN \* eprintln!(.., r_photo.as_str().unwrap())
                    IF r.utf8
                    THEN RunReturns("download", FALSE)
                    ELSE StepPanics("download", "as_str: unwrap on Err")
               ELSE StepOk("download", "upload")
    /\ UNCHANGED <<env, file, birds, num_attempts, b, image, token, post_json,
                   remote_posts, error_reported, success_printed>>

\* lines 280-335: the blob upload and the construction of the record
PostUpload ==
    /\ pc = "upload"
    /\ \E r \in BlobResponses :
         /\ resp' = Some(r)
         /\ IF ~r.ok \/ r.status # 200 \/ is_none(r.json)
            THEN /\ post_json' = None
                 /\ RunReturns("upload", FALSE)
            ELSE LET blob == unwrap(r.json).blob IN
                 IF is_none(blob)
                 THEN \* blob_json.get("blob").unwrap()
                      /\ post_json' = None
                      /\ StepPanics("upload", "blob: unwrap on None")
                 ELSE /\ post_json' = Some(build_post(unwrap(b), unwrap(image),
                                                      unwrap(token), unwrap(blob)))
                      /\ StepOk("upload", "createRecord")
    /\ UNCHANGED <<env, file, birds, num_attempts, b, image, token,
                   remote_posts, error_reported, success_printed>>

\* lines 337-357: createRecord
PostCreate ==
    /\ pc = "createRecord"
    /\ \E r \in RecordResponses :
         /\ resp' = Some(r)
         /\ remote_posts' = remote_posts + (IF r.accepted THEN 1 ELSE 0)
         /\ IF ~r.ok
            THEN /\ RunReturns("createRecord", FALSE)
                 /\ UNCHANGED success_printed
            ELSE IF r.status # 200
            THEN \* eprintln!(.., post.as_str().unwrap())
                 /\ UNCHANGED success_printed
                 /\ IF r.utf8
                    THEN RunReturns("createRecord", FALSE)
                    ELSE StepPanics("createRecord", "as_str: unwrap on Err")
            ELSE /\ success_printed' = success_printed + 1
                 /\ RunReturns("createRecord", TRUE)
    /\ UNCHANGED <<env, file, birds, num_attempts, b, image, token, post_json,
                   error_reported>>

(***************************************************************************)
(* Properties                                                              *)
(***************************************************************************)
RunPcs == {"get_bird", "get_bird_photo", "authenticate", "download", "upload",
           "createRecord"}

Order == <<"get_bird", "get_bird_photo", "authenticate", "download", "upload",
           "createRecord">>

\* run() has been invoked this many times: once per returned value, plus the
\* invocation under way or the one that ended the process
Invocations == Len(results) + (IF pc \in RunPcs \cup {"crashed"} THEN 1 ELSE 0)

Succeeded == \E i \in 1..Len(results) : results[i]
FirstSuccess == CHOOSE i \in 1..Len(results) :
                    results[i] /\ \A k \in 1..(i - 1) : ~results[k]
LoopExited == pc \in {"main_report", "done"}

Acted(name) == \E i \in 1..Len(steps) : steps[i].step = name
LastStepIs(name) == steps # <<>> /\ steps[Len(steps)].step = name
LastOutcome == steps[Len(steps)].outcome
\* the attempt that ran these steps gave main the value FALSE
ReturnedFalse ==
    /\ pc \in {"main_loop", "main_report", "done"}
    /\ results # <<>>
    /\ ~results[Len(results)]

\* C1: main invokes run() at most 3 times and never again after a run
\* returned true; when the loop is left the number of invocations is the
\* index of the first true result, or exactly 3 when every result was false.
C1_AttemptsBounded ==
    /\ Invocations <= 3
    /\ \A i \in 1..Len(results) :
          results[i] => (i = Len(results) /\ Invocations = i /\ LoopExited)
    /\ LoopExited =>
          IF Succeeded THEN Invocations = FirstSuccess
          ELSE Invocations = 3 /\ Len(results) = 3

\* C1 witness: the second attempt succeeded and the driver stopped after it
C1_Witness ==
    /\ pc = "done"
    /\ results = <<FALSE, TRUE>>
    /\ Invocations = 2

\* C2: when main ends, the overall-failure error has been reported exactly
\* when no attempt succeeded, whichever attempt was the successful one.
C2_ReportIffAllFailed ==
    pc = "done" => (error_reported <=> ~Succeeded)

\* the record is not extinct and its common name is no "sp." placeholder
Eligible(bird) ==
    /\ ~contains(bird.common_name, SpDot)
    /\ bird.extinct # Some(TRUE)

\* C3: for a dataset with at least one record that is not extinct and not a
\* species-group placeholder, get_bird returns some record, and that record
\* is one of the dataset's non-extinct, non-placeholder records.
C3_SelectsFromFilteredSubset ==
    (/\ Acted("get_bird")
     /\ file = "ok"
     /\ \E i \in 1..Len(birds) : Eligible(birds[i]))
    => (/\ b # None
        /\ \E i \in 1..Len(birds) : birds[i] = unwrap(b)
        /\ Eligible(unwrap(b)))

\* C4: when the dataset parses and no record survives the filter, get_bird
\* returns None, run() returns false and the process does not crash.
C4_EmptyFilterReturnsNone ==
    (/\ LastStepIs("get_bird")
     /\ file = "ok"
     /\ Len(retain(birds)) = 0)
    => (/\ pc # "crashed"
        /\ b = None
        /\ LastOutcome = "fail"
        /\ ReturnedFalse)

\* the steps of an attempt run in the pipeline's order, each after the
\* success of the one before it
StepsInOrder ==
    /\ Len(steps) <= Len(Order)
    /\ \A i \in 1..Len(steps) :
          /\ steps[i].step = Order[i]
          /\ i < Len(steps) => steps[i].outcome = "ok"
    /\ pc \in RunPcs => /\ Len(steps) < Len(Order)
                        /\ pc = Order[Len(steps) + 1]

\* run() returned true only after all six steps succeeded, createRecord
\* answered 200 and the success line was printed
TrueOnlyAfterAllSteps ==
    (results # <<>> /\ results[Len(results)])
    => (/\ Len(steps) = Len(Order)
        /\ \A i \in 1..Len(steps) : steps[i].outcome = "ok"
        /\ unwrap(resp).status = 200
        /\ success_printed = 1)

\* C5: within an attempt the steps run in the strict order select, scrape,
\* authenticate, download, upload, createRecord; a step that fails ends
\* the attempt with false and no later step runs; run() returns true, with
\* the success line, only when every step succeeded and createRecord
\* answered 200.
C5_OrderedAbortWithFalse ==
    /\ StepsInOrder
    /\ TrueOnlyAfterAllSteps
    /\ (results = <<>> \/ ~results[Len(results)]) => success_printed = 0
    /\ (steps # <<>> /\ LastOutcome # "ok") => ReturnedFalse

\* the number of bytes of the UTF-8 encoding of a code point
Utf8Width(cp) ==
    IF cp < 128 THEN 1 ELSE IF cp < 2048 THEN 2 ELSE IF cp < 65536 THEN 3 ELSE 4

RECURSIVE ByteCount(_)
ByteCount(s) == IF s = <<>> THEN 0 ELSE Utf8Width(Head(s)) + ByteCount(Tail(s))

\* C6: the link facet of the post ends at the UTF-8 byte length of the text
\* and starts 12 bytes before it, never below 0, so that the bytes it covers
\* are exactly the trailing "Image Credit".
C6_FacetCoversImageCredit ==
    post_json # None =>
        LET p == unwrap(post_json)
            bytes == Encode(p.text) IN
        /\ p.text = format_text(unwrap(b).common_name, unwrap(b).scientific_name)
        /\ p.byteEnd = ByteCount(p.text)
        /\ p.byteStart = p.byteEnd - 12
        /\ p.byteStart >= 0
        /\ SubSeq(bytes, p.byteStart + 1, p.byteEnd) = ImageCredit

\* C6 witness: a post was built for names holding multi-byte characters
C6_Witness ==
    /\ post_json # None
    /\ ByteCount(unwrap(post_json).text) > Len(unwrap(post_json).text)
    /\ unwrap(post_json).byteStart = ByteCount(unwrap(post_json).text) - 12

AllFourTags(page) ==
    /\ page.og_image # None
    /\ page.og_image_alt # None
    /\ page.og_url # None
    /\ page.image_src # None

\* the species page answered 200 with a page
GotPage ==
    /\ LastStepIs("get_bird_photo")
    /\ resp # None
    /\ unwrap(resp).ok
    /\ unwrap(resp).status = 200
    /\ unwrap(resp).body # None

\* C7: for a species page returned with 200, get_bird_photo returns
\* metadata only when all four tags are present; when any of the four is
\* lacking, whichever of the others are present, it returns None and the
\* attempt ends with false.
C7_MissingTagReturnsNone ==
    GotPage =>
        LET page == unwrap(unwrap(resp).body) IN
        /\ image # None => AllFourTags(page)
        /\ ~AllFourTags(page) =>
              /\ image = None
              /\ LastOutcome = "fail"
              /\ ReturnedFalse

\* the session endpoint answered 200 with a JSON body
GotSession ==
    /\ LastStepIs("authenticate")
    /\ resp # None
    /\ unwrap(resp).ok
    /\ unwrap(resp).status = 200
    /\ unwrap(resp).json # None

\* C8: on a 200 JSON body with both accessJwt and did, authenticate returns
\* a Token whose token is the accessJwt value and whose did is the did
\* value; on a 200 body missing either field it returns None.
C8_TokenFromSessionFields ==
    GotSession =>
        LET json == unwrap(unwrap(resp).json) IN
        /\ (json.accessJwt # None /\ json.did # None) =>
              /\ token # None
              /\ JString(unwrap(token).token) = unwrap(json.accessJwt)
              /\ JString(unwrap(token).did) = unwrap(json.did)
        /\ (json.accessJwt = None \/ json.did = None) =>
              /\ token = None
              /\ LastOutcome = "fail"
              /\ ReturnedFalse

\* C9: whatever a response contains, the step that reads it yields its
\* negative result and run() returns false: the process never crashes on
\* the content of a response.
C9_NoResponseCrashes ==
    (steps # <<>> /\ resp # None) => (pc # "crashed" /\ LastOutcome # "panic")

\* C10: within one process at most one post is created on the remote
\* service, whatever the outcomes of the requests of the three attempts.
C10_AtMostOnePost ==
    remote_posts <= 1

(***************************************************************************)
(* What holds of the code where C3, C7 and C8 do not                       *)
(***************************************************************************)
\* a record get_bird returns is never extinct and never a placeholder
SelectedIsEligible ==
    b # None => (Eligible(unwrap(b)) /\ \E i \in 1..Len(birds) : birds[i] = unwrap(b))

\* every tag the page holds carries its attribute
WellFormed(page) ==
    /\ page.og_image # Some(None)
    /\ page.og_image_alt # Some(None)
    /\ page.og_url # Some(None)
    /\ page.image_src # Some(None)

\* on a page whose tags carry their attributes, metadata is returned exactly
\* when all four tags are present
WellFormedPageScraped ==
    (GotPage /\ WellFormed(unwrap(unwrap(resp).body))) =>
        LET page == unwrap(unwrap(resp).body) IN
        /\ image # None <=> AllFourTags(page)
        /\ ~AllFourTags(page) => (LastOutcome = "fail" /\ ReturnedFalse)

\* on a session body whose fields are strings, the Token holds the two
\* values, and a missing field gives None
StringSessionParsed ==
    (GotSession
     /\ unwrap(unwrap(resp).json).accessJwt # Some(JNumber)
     /\ unwrap(unwrap(resp).json).did # Some(JNumber)) =>
        LET json == unwrap(unwrap(resp).json) IN
        IF json.accessJwt # None /\ json.did # None
        THEN /\ token # None
             /\ JString(unwrap(token).token) = unwrap(json.accessJwt)
             /\ JString(unwrap(token).did) = unwrap(json.did)
        ELSE token = None /\ LastOutcome = "fail" /\ ReturnedFalse

Next ==
    \/ MainLoop
    \/ GetBird
    \/ GetBirdPhoto
    \/ Authenticate
    \/ PostDownload
    \/ PostUpload
    \/ PostCreate
    \/ MainReport

Spec == Init /\ [][Next]_vars
====
